---- MODULE Spec2Model ----
(***************************************************************************)
(* A model of the atmchem utilities: the three calculators of              *)
(* quickcalcs.py (chi_water, p_to_c, raoults) and the animation driver of  *)
(* animate.py.                                                             *)
(*                                                                         *)
(* Numbers.  A Python number is a record                                   *)
(*     [k, n, d, p2, p5, ty]                                               *)
(* k = "fin": the value (n/d) * 2^p2 * 5^p5, n/d in lowest terms, d > 0,   *)
(*            n and d coprime to 10 (zero is 0/1 * 2^0 * 5^0): one record  *)
(*            per value;                                                   *)
(* k = "inf": an infinity of sign n; k = "nan": not a number;              *)
(* k = an exception name: the evaluation raised it.                        *)
(* ty = "scalar" (a Python int or float), "ndarray" (a NumPy array, of     *)
(* which one element is followed: the arithmetic is element-wise) or       *)
(* "list" (a Python list or tuple).  Arithmetic is exact: the rounding of  *)
(* binary floating point is not modelled.                                  *)
(***************************************************************************)
EXTENDS Integers, Sequences, FiniteSets, TLC

VARIABLES
    fn,        \* the function the caller invokes
    args,      \* its arguments
    result,    \* what the call produced: a number, an exception, or NoResult
    prev,      \* the earlier calls of this caller: <<[args, result]>>
    shown,     \* the data the line displays (Line2D.set_data)
    xlim,      \* the axis' x-limits: <<>> while untouched, else <<lo, hi>>
    ylim,      \* the axis' y-limits
    nset,      \* how many times set_xlim and set_ylim were called: <<nx, ny>>
    ani,       \* the FuncAnimation handle: <<>> or <<[frames, interval, blit]>>
    apc,       \* where animate is: "idle", "saving", "returned", "raised"
    frame,     \* the index of the next frame to draw
    cur,       \* the index of the frame drawn last, -1 before the first
    saved      \* the writer: <<>> or <<[fps, dpi, frames]>>, frames the grabbed data

animVars == <<shown, xlim, ylim, nset, ani, apc, frame, cur, saved>>
vars == <<fn, args, result, prev, shown, xlim, ylim, nset, ani, apc, frame, cur, saved>>

(***************************************************************************)
(* Exact decimal-scaled rational arithmetic                                *)
(***************************************************************************)
Abs(x) == IF x < 0 THEN -x ELSE x

Sgn(x) == IF x < 0 THEN -1 ELSE IF x > 0 THEN 1 ELSE 0

RECURSIVE GCD(_, _)
GCD(a, b) == IF b = 0 THEN a ELSE GCD(b, a % b)

RECURSIVE Pow(_, _)
Pow(b, i) == IF i <= 0 THEN 1 ELSE b * Pow(b, i - 1)

\* <<m, c>>: n (n # 0) with its factors f taken out, and how many there were
RECURSIVE Strip(_, _, _)
Strip(n, f, c) == IF n % f = 0 THEN Strip(n \div f, f, c + 1) ELSE <<n, c>>

\* the canonical <<n, d, p2, p5>> of (n/d) * 2^p2 * 5^p5, d # 0
Norm(n, d, p2, p5) ==
    IF n = 0 THEN <<0, 1, 0, 0>>
    ELSE LET n1 == Sgn(d) * n
             d1 == Abs(d)
             g  == GCD(Abs(n1), d1)
             n2 == Strip(n1 \div g, 2, 0)
             n5 == Strip(n2[1], 5, 0)
             d2 == Strip(d1 \div g, 2, 0)
             d5 == Strip(d2[1], 5, 0)
         IN  <<n5[1], d5[1], p2 + n2[2] - d2[2], p5 + n5[2] - d5[2]>>

Fin(n, d, p2, p5, ty) ==
    LET c == Norm(n, d, p2, p5)
    IN  [k |-> "fin", n |-> c[1], d |-> c[2], p2 |-> c[3], p5 |-> c[4], ty |-> ty]

\* (n/d) * 10^e
Num(n, d, e, ty) == Fin(n, d, e, e, ty)

Inf(s, ty) == [k |-> "inf", n |-> s, d |-> 1, p2 |-> 0, p5 |-> 0, ty |-> ty]

NaN(ty) == [k |-> "nan", n |-> 0, d |-> 1, p2 |-> 0, p5 |-> 0, ty |-> ty]

Raise(exc) == [k |-> exc, n |-> 0, d |-> 1, p2 |-> 0, p5 |-> 0, ty |-> "exception"]

NoResult == [k |-> "pending", n |-> 0, d |-> 1, p2 |-> 0, p5 |-> 0, ty |-> "none"]

Exceptions == {"ValueError", "ZeroDivisionError", "TypeError"}

IsExc(a) == a.k \in Exceptions

IsZero(a) == a.k = "fin" /\ a.n = 0

\* a Python literal or an int
Lit(n, d, e) == Num(n, d, e, "scalar")

\* the type of the result of a binary operation
ResTy(a, b) == IF a.ty = "ndarray" \/ b.ty = "ndarray" THEN "ndarray" ELSE "scalar"

\* the sign of a number that is not nan
SignOf(a) == Sgn(a.n)

MulCore(a, b) ==
    LET ty == ResTy(a, b)
    IN  IF a.k = "nan" \/ b.k = "nan" THEN NaN(ty)
        ELSE IF a.k = "inf" \/ b.k = "inf"
             THEN IF IsZero(a) \/ IsZero(b) THEN NaN(ty)
                  ELSE Inf(SignOf(a) * SignOf(b), ty)
        ELSE LET g1 == GCD(Abs(a.n), b.d)
                 g2 == GCD(Abs(b.n), a.d)
             IN  IF a.n = 0 \/ b.n = 0 THEN Num(0, 1, 0, ty)
                 ELSE Fin((a.n \div g1) * (b.n \div g2),
                          (a.d \div g2) * (b.d \div g1), a.p2 + b.p2, a.p5 + b.p5, ty)

AddCore(a, b) ==
    LET ty == ResTy(a, b)
    IN  IF a.k = "nan" \/ b.k = "nan" THEN NaN(ty)
        ELSE IF a.k = "inf" /\ b.k = "inf"
             THEN IF a.n = b.n THEN Inf(a.n, ty) ELSE NaN(ty)
        ELSE IF a.k = "inf" THEN Inf(a.n, ty)
        ELSE IF b.k = "inf" THEN Inf(b.n, ty)
        ELSE IF a.n = 0 THEN [b EXCEPT !.ty = ty]
        ELSE IF b.n = 0 THEN [a EXCEPT !.ty = ty]
        ELSE LET m2 == IF a.p2 < b.p2 THEN a.p2 ELSE b.p2
                 m5 == IF a.p5 < b.p5 THEN a.p5 ELSE b.p5
                 an == a.n * Pow(2, a.p2 - m2) * Pow(5, a.p5 - m5)
                 bn == b.n * Pow(2, b.p2 - m2) * Pow(5, b.p5 - m5)
             IN  Fin(an * b.d + bn * a.d, a.d * b.d, m2, m5, ty)

\* a / b with a zero divisor raising whatever the operands are
DivCoreRaising(a, b) ==
    IF a.k = "fin" /\ b.k = "fin" /\ b.n = 0 THEN Raise("ZeroDivisionError")
    ELSE IF a.k = "fin" /\ b.k = "fin"
         THEN MulCore(a, [b EXCEPT !.n = Sgn(b.n) * b.d, !.d = Abs(b.n),
                                   !.p2 = -b.p2, !.p5 = -b.p5])
    ELSE NaN(ResTy(a, b))

\* a / b.  A zero divisor raises ZeroDivisionError between Python scalars; with
\* a NumPy operand it gives nan (0/0) or an infinity (a warning, no exception).
DivCore(a, b) ==
    LET ty == ResTy(a, b)
    IN  IF a.k = "nan" \/ b.k = "nan" THEN NaN(ty)
        ELSE IF a.k = "inf"
             THEN IF b.k = "inf" THEN NaN(ty)
                  ELSE Inf(a.n * (IF SignOf(b) < 0 THEN -1 ELSE 1), ty)
        ELSE IF b.k = "inf" THEN Num(0, 1, 0, ty)
        ELSE IF b.n = 0
             THEN IF ty = "scalar" THEN Raise("ZeroDivisionError")
                  ELSE IF a.n = 0 THEN NaN(ty) ELSE Inf(Sgn(a.n), ty)
        ELSE MulCore(a, [b EXCEPT !.n = Sgn(b.n) * b.d, !.d = Abs(b.n),
                                  !.p2 = -b.p2, !.p5 = -b.p5])

\* an exception raised by an operand propagates; a list operand is no number
Operands(a, b) ==
    IF IsExc(a) THEN a
    ELSE IF IsExc(b) THEN b
    ELSE IF a.ty = "list" \/ b.ty = "list" THEN Raise("TypeError")
    ELSE NoResult

Mul(a, b) == IF Operands(a, b) # NoResult THEN Operands(a, b) ELSE MulCore(a, b)

Add(a, b) == IF Operands(a, b) # NoResult THEN Operands(a, b) ELSE AddCore(a, b)

Div(a, b) == IF Operands(a, b) # NoResult THEN Operands(a, b) ELSE DivCore(a, b)

Neg(a) == IF a.k \in {"fin", "inf"} THEN [a EXCEPT !.n = -a.n] ELSE a

Sub(a, b) == Add(a, Neg(b))

\* a < b, of finite numbers
Less(a, b) ==
    LET m2 == IF a.p2 < b.p2 THEN a.p2 ELSE b.p2
        m5 == IF a.p5 < b.p5 THEN a.p5 ELSE b.p5
        an == a.n * Pow(2, a.p2 - m2) * Pow(5, a.p5 - m5)
        bn == b.n * Pow(2, b.p2 - m2) * Pow(5, b.p5 - m5)
    IN  IF a.n = 0 \/ b.n = 0 \/ Sgn(a.n) # Sgn(b.n) THEN Sgn(a.n) < Sgn(b.n)
        ELSE an * b.d < bn * a.d

\* equal values, whatever the container
SameValue(a, b) == [a EXCEPT !.ty = "any"] = [b EXCEPT !.ty = "any"]

(***************************************************************************)
(* quickcalcs.py: chi_water                                                *)
(***************************************************************************)
\* np.array(x) for an argument that is no float, int or ndarray
AsArray(x) == IF x.ty \notin {"scalar", "ndarray"} THEN [x EXCEPT !.ty = "ndarray"] ELSE x

\* The temperatures (degrees Celsius) the model calls chi_water with.
Temps == {-20, 0, 25, 50}

\* A * 10**((m * T) / (T + Tn)) with A = 6.116441, m = 7.591386, Tn = 240.7263,
\* in hundredths of a hectopascal, rounded: 1.25, 6.12, 31.67 and 123.62 hPa.
SatCentiHPa(t) ==
    CASE t = -20 -> 125
      [] t = 0   -> 612
      [] t = 25  -> 3167
      [] t = 50  -> 12362

\* the integer a finite whole number stands for
AsInt(a) == a.n * Pow(2, a.p2) * Pow(5, a.p5)

\* H2O saturation vapour pressure in hPa; T + Tn # 0 for every T in Temps
H2O_sat_P(T_celc) ==
    IF T_celc.ty = "list" THEN Raise("TypeError")
    ELSE Num(SatCentiHPa(AsInt(T_celc)), 1, -2, T_celc.ty)

\* water pressure in hPa: Pw = 0.01 * RH_percent * H2O_sat_P
WaterPressure(T_celc, RH_percent) ==
    Mul(Mul(Lit(1, 1, -2), AsArray(RH_percent)), H2O_sat_P(AsArray(T_celc)))

\* the total pressure in hPa: P_hpa = P_Torr * (10**3 / 760)
TotalPressure(P_Torr) == Mul(AsArray(P_Torr), Div(Lit(1000, 1, 0), Lit(760, 1, 0)))

\* the dry-air denominator with its operands exchanged: Pw - P_hpa
chi_water_swapped(T_celc, RH_percent, P_Torr, chi_h20_dry_air) ==
    LET Pw    == WaterPressure(T_celc, RH_percent)
        P_hpa == TotalPressure(P_Torr)
    IN  IF chi_h20_dry_air THEN Div(Pw, Sub(Pw, P_hpa)) ELSE Div(Pw, P_hpa)

\* the water pressure taken as the saturation pressure, RH left out
chi_water_saturated(T_celc, RH_percent, P_Torr, chi_h20_dry_air) ==
    LET Pw    == Mul(Lit(1, 1, 0), H2O_sat_P(AsArray(T_celc)))
        P_hpa == TotalPressure(P_Torr)
    IN  IF chi_h20_dry_air THEN Div(Pw, Sub(P_hpa, Pw)) ELSE Div(Pw, P_hpa)

chi_water(T_celc, RH_percent, P_Torr, chi_h20_dry_air) ==
    LET Pw    == WaterPressure(T_celc, RH_percent)
        P_hpa == TotalPressure(P_Torr)
    IN  IF chi_h20_dry_air THEN Div(Pw, Sub(P_hpa, Pw)) ELSE Div(Pw, P_hpa)

(***************************************************************************)
(* quickcalcs.py: p_to_c                                                   *)
(***************************************************************************)
\* an unrecognized pressure unit rejected instead of passed through
ConvertPressureStrict(P, Psystem, Punit) ==
    IF Punit = "Pa" THEN <<Mul(P, Lit(1, 1, -2)), Mul(Psystem, Lit(1, 1, -2))>>
    ELSE IF Punit = "atm"
         THEN <<Mul(P, Lit(101325, 1, -2)), Mul(Psystem, Lit(101325, 1, -2))>>
    ELSE IF Punit = "torr"
         THEN <<Mul(P, Div(Lit(101325, 1, -2), Lit(760, 1, 0))),
                Mul(Psystem, Div(Lit(101325, 1, -2), Lit(760, 1, 0)))>>
    ELSE IF Punit = "mbar" THEN <<P, Psystem>>
    ELSE <<Raise("ValueError"), Raise("ValueError")>>

\* the torr branch converting P and leaving Psystem as it came
ConvertPressureOneSided(P, Psystem, Punit) ==
    IF Punit = "Pa" THEN <<Mul(P, Lit(1, 1, -2)), Mul(Psystem, Lit(1, 1, -2))>>
    ELSE IF Punit = "atm"
         THEN <<Mul(P, Lit(101325, 1, -2)), Mul(Psystem, Lit(101325, 1, -2))>>
    ELSE IF Punit = "torr"
         THEN <<Mul(P, Div(Lit(101325, 1, -2), Lit(760, 1, 0))), Psystem>>
    ELSE <<P, Psystem>>

\* <<P, Psystem>> in millibar
ConvertPressure(P, Psystem, Punit) ==
    IF Punit = "Pa" THEN <<Mul(P, Lit(1, 1, -2)), Mul(Psystem, Lit(1, 1, -2))>>
    ELSE IF Punit = "atm"
         THEN <<Mul(P, Lit(101325, 1, -2)), Mul(Psystem, Lit(101325, 1, -2))>>
    ELSE IF Punit = "torr"
         THEN <<Mul(P, Div(Lit(101325, 1, -2), Lit(760, 1, 0))),
                Mul(Psystem, Div(Lit(101325, 1, -2), Lit(760, 1, 0)))>>
    ELSE <<P, Psystem>>

\* an unsupported concentration unit falling back to the default, ppb
ConcFactorDefaulting(Cunit) ==
    IF Cunit = "ppm" THEN Lit(1, 1, 6)
    ELSE IF Cunit = "ppt" THEN Lit(1, 1, 12)
    ELSE Lit(1, 1, 9)

\* the scale factor of a concentration unit
ConcFactor(Cunit) ==
    IF Cunit = "ppm" THEN Lit(1, 1, 6)
    ELSE IF Cunit = "ppb" THEN Lit(1, 1, 9)
    ELSE IF Cunit = "ppt" THEN Lit(1, 1, 12)
    ELSE Raise("ValueError")

p_to_c(P, Punit, Cunit, Psystem) ==
    LET mbar   == ConvertPressure(P, Psystem, Punit)
        factor == ConcFactor(Cunit)
    IN  IF IsExc(mbar[1]) THEN mbar[1]
        ELSE IF IsExc(factor) THEN factor
        ELSE Mul(Div(mbar[1], mbar[2]), factor)

(***************************************************************************)
(* quickcalcs.py: raoults                                                  *)
(***************************************************************************)
\* the mole fraction of the solvent taken for that of the solute
raoults_solvent(pvapsolute, conc, mw_solute, mw_solvent, density) ==
    LET mol_solute  == Div(Mul(conc, Lit(1, 1, -3)), mw_solute)
        mol_solvent == Div(Mul(Lit(1000, 1, 0), density), mw_solvent)
        chi_solute  == Div(mol_solvent, Add(mol_solute, mol_solvent))
    IN  Mul(pvapsolute, chi_solute)

raoults(pvapsolute, conc, mw_solute, mw_solvent, density) ==
    LET mol_solute  == Div(Mul(conc, Lit(1, 1, -3)), mw_solute)
        mol_solvent == Div(Mul(Lit(1000, 1, 0), density), mw_solvent)
        chi_solute  == Div(mol_solute, Add(mol_solute, mol_solvent))
    IN  Mul(pvapsolute, chi_solute)

(***************************************************************************)
(* The callers of the calculators: the arguments they pass                 *)
(***************************************************************************)
MaxConc == 2
MaxMolWeight == 2
MaxDensity == 1
MaxVapor == 1

NumTypes == {"scalar", "ndarray"}

\* chi_water also takes lists and tuples
ChiTypes == {"scalar", "ndarray", "list"}

Humidities == {-10, 0, 50, 100}

TorrPressures == {-760, 0, 50, 760}

PressureUnits == {"mbar", "Pa", "atm", "torr", "Torr", "psi"}

ConcUnits == {"ppm", "ppb", "ppt", "percent", "PPB"}

\* partial pressures, and system pressures with the default 1013.25 among them
PartialPressures == {Lit(0, 1, 0), Lit(10, 1, 0), Lit(760, 1, 0)}

SystemPressures == {Lit(0, 1, 0), Lit(760, 1, 0), Lit(1000, 1, 0), Lit(101325, 1, -2)}

ChiArgs ==
    { [T_celc |-> Num(t, 1, 0, ty[1]), RH_percent |-> Num(rh, 1, 0, ty[2]),
       P_Torr |-> Num(p, 1, 0, ty[3]), chi_h20_dry_air |-> dry] :
        t \in Temps, rh \in Humidities, p \in TorrPressures, dry \in BOOLEAN,
        ty \in ChiTypes \X ChiTypes \X ChiTypes }

PtoCArgs ==
    { [P |-> [p EXCEPT !.ty = ty[1]], Punit |-> pu, Cunit |-> cu,
       Psystem |-> [ps EXCEPT !.ty = ty[2]]] :
        p \in PartialPressures, ps \in SystemPressures, pu \in PressureUnits,
        cu \in ConcUnits, ty \in NumTypes \X NumTypes }

RaoultsArgs ==
    { [pvapsolute |-> Num(p, 1, 0, ty[1]), conc |-> Num(c, 1, 0, ty[2]),
       mw_solute |-> Num(mw, 1, 0, ty[3]), mw_solvent |-> Num(ms, 1, 0, ty[4]),
       density |-> Num(d, 1, 0, ty[5])] :
        p \in 0..MaxVapor, c \in 0..MaxConc, mw \in 0..MaxMolWeight,
        ms \in 0..MaxMolWeight, d \in 0..MaxDensity,
        ty \in NumTypes \X NumTypes \X NumTypes \X NumTypes \X NumTypes }

ArgsOf(f) ==
    CASE f = "chi_water" -> ChiArgs
      [] f = "p_to_c"    -> PtoCArgs
      [] f = "raoults"   -> RaoultsArgs

\* the animation driver, not called
AnimIdle ==
    /\ shown = [x |-> <<>>, y |-> <<>>]
    /\ xlim = <<>>
    /\ ylim = <<>>
    /\ nset = <<0, 0>>
    /\ ani = <<>>
    /\ apc = "idle"
    /\ frame = 0
    /\ cur = -1
    /\ saved = <<>>

InitCalc ==
    /\ fn \in {"chi_water", "p_to_c", "raoults"}
    /\ args \in ArgsOf(fn)
    /\ result = NoResult
    /\ prev = <<>>
    /\ AnimIdle

CallChiWater ==
    /\ fn = "chi_water"
    /\ result = NoResult
    /\ result' = chi_water(args.T_celc, args.RH_percent, args.P_Torr,
                           args.chi_h20_dry_air)
    /\ UNCHANGED <<fn, args, prev, animVars>>

CallPtoC ==
    /\ fn = "p_to_c"
    /\ result = NoResult
    /\ result' = p_to_c(args.P, args.Punit, args.Cunit, args.Psystem)
    /\ UNCHANGED <<fn, args, prev, animVars>>

CallRaoults ==
    /\ fn = "raoults"
    /\ result = NoResult
    /\ result' = raoults(args.pvapsolute, args.conc, args.mw_solute,
                         args.mw_solvent, args.density)
    /\ UNCHANGED <<fn, args, prev, animVars>>

\* the caller calls raoults once more, with another concentration and the
\* other arguments as they were
CallRaoultsAgain ==
    /\ fn = "raoults"
    /\ result # NoResult
    /\ prev = <<>>
    /\ \E c \in 0..MaxConc :
        /\ args' = [args EXCEPT !.conc = Num(c, 1, 0, args.conc.ty)]
        /\ result' = raoults(args'.pvapsolute, args'.conc, args'.mw_solute,
                             args'.mw_solvent, args'.density)
    /\ prev' = <<[args |-> args, result |-> result]>>
    /\ UNCHANGED <<fn, animVars>>

NextCalc == CallChiWater \/ CallPtoC \/ CallRaoults \/ CallRaoultsAgain

SpecCalc == InitCalc /\ [][NextCalc]_vars

(***************************************************************************)
(* animate.py: animate                                                     *)
(***************************************************************************)
MaxPoints == 3

DefaultLengthSecs == 5

Interval == 200

Dpi == 300

XVals == {0, 3, 10}

YVals == {-1, 2}

\* the lines of at most MaxPoints points: x and y data of one length
SmallLines ==
    UNION { { [x |-> xs, y |-> ys] : xs \in [1..n -> XVals], ys \in [1..n -> YVals] } :
            n \in 0..MaxPoints }

\* a line of 50 points
LongLine == [x |-> [i \in 1..50 |-> i - 1], y |-> [i \in 1..50 |-> 2]]

\* margin_pcnt: the default 0.05, and the 0.2 main() passes
Margins == {Lit(5, 1, -2), Lit(2, 1, -1)}

\* filename: given (TRUE) or None (FALSE)
AnimateArgs ==
    { [line |-> l, filename |-> f, length_secs |-> s, set_margins |-> sm,
       margin_pcnt |-> m] :
        l \in SmallLines \cup {LongLine}, f \in BOOLEAN,
        s \in {1, 2, DefaultLengthSecs}, sm \in BOOLEAN, m \in Margins }

Range(s) == { s[i] : i \in DOMAIN s }

\* min(vals) and max(vals) of a sequence that is not empty
SeqMin(vals) == CHOOSE m \in Range(vals) : \A v \in Range(vals) : m <= v

SeqMax(vals) == CHOOSE m \in Range(vals) : \A v \in Range(vals) : v <= m

\* np.ptp(vals)
Ptp(vals) == SeqMax(vals) - SeqMin(vals)

\* a value of the line's data, a NumPy number
NpInt(v) == Num(v, 1, 0, "ndarray")

\* the margin added on the inside: (min + m * ptp, max - m * ptp)
LimitsInward(vals, margin_pcnt) ==
    << Add(NpInt(SeqMin(vals)), Mul(margin_pcnt, NpInt(Ptp(vals)))),
       Sub(NpInt(SeqMax(vals)), Mul(margin_pcnt, NpInt(Ptp(vals)))) >>

\* (min(vals) - margin_pcnt * np.ptp(vals), max(vals) + margin_pcnt * np.ptp(vals))
Limits(vals, margin_pcnt) ==
    << Sub(NpInt(SeqMin(vals)), Mul(margin_pcnt, NpInt(Ptp(vals)))),
       Add(NpInt(SeqMax(vals)), Mul(margin_pcnt, NpInt(Ptp(vals)))) >>

\* vals[:stop], stop >= 0
Slice(vals, stop) == SubSeq(vals, 1, IF stop < Len(vals) THEN stop ELSE Len(vals))

\* the slice stopping one point early: x_vals[:frame]
animate_frames_short(l, f) == [x |-> Slice(l.x, f), y |-> Slice(l.y, f)]

\* the data animate_frames(frame) gives the line
animate_frames(l, f) == [x |-> Slice(l.x, f + 1), y |-> Slice(l.y, f + 1)]

\* the rate inverted: length_secs / frames
FramesPerSecondInverted(frames, length_secs) ==
    Div(Lit(length_secs, 1, 0), Lit(frames, 1, 0))

\* fps = frames / length_secs, of two Python ints
FramesPerSecond(frames, length_secs) == Div(Lit(frames, 1, 0), Lit(length_secs, 1, 0))

InitAnimate ==
    /\ fn = "animate"
    /\ args \in AnimateArgs
    /\ result = NoResult
    /\ prev = <<>>
    /\ shown = [x |-> args.line.x, y |-> args.line.y]
    /\ xlim = <<>>
    /\ ylim = <<>>
    /\ nset = <<0, 0>>
    /\ ani = <<>>
    /\ apc = "idle"
    /\ frame = 0
    /\ cur = -1
    /\ saved = <<>>

\* animate, from its first line to the start of ani.save (or to its return when
\* no filename is given).  min() of an empty sequence raises ValueError.
Animate ==
    /\ fn = "animate"
    /\ apc = "idle"
    /\ LET x_vals == args.line.x
           y_vals == args.line.y
           frames == Len(x_vals)
           fps    == FramesPerSecond(frames, args.length_secs)
       IN  IF args.set_margins /\ frames = 0
           THEN /\ apc' = "raised"
                /\ result' = Raise("ValueError")
                /\ UNCHANGED <<xlim, ylim, nset, ani, saved>>
           ELSE /\ IF args.set_margins
                   THEN /\ xlim' = Limits(x_vals, args.margin_pcnt)
                        /\ ylim' = Limits(y_vals, args.margin_pcnt)
                        /\ nset' = <<nset[1] + 1, nset[2] + 1>>
                   ELSE UNCHANGED <<xlim, ylim, nset>>
                /\ ani' = <<[frames |-> frames, interval |-> Interval, blit |-> TRUE]>>
                /\ IF ~args.filename
                   THEN apc' = "returned" /\ UNCHANGED <<saved, result>>
                   ELSE IF IsExc(fps)
                        THEN apc' = "raised" /\ result' = fps /\ UNCHANGED saved
                        ELSE /\ apc' = "saving"
                             /\ saved' = <<[fps |-> fps, dpi |-> Dpi, frames |-> <<>>]>>
                             /\ UNCHANGED result
    /\ UNCHANGED <<fn, args, prev, shown, frame, cur>>

\* ani.save draws the next frame and the writer grabs it
SaveFrame ==
    /\ apc = "saving"
    /\ frame < ani[1].frames
    /\ shown' = animate_frames(args.line, frame)
    /\ saved' = <<[saved[1] EXCEPT !.frames = Append(@, shown')]>>
    /\ cur' = frame
    /\ frame' = frame + 1
    /\ UNCHANGED <<fn, args, result, prev, xlim, ylim, nset, ani, apc>>

\* ani.save has drawn every frame: the writer finishes and animate returns ani.
\* What the writer does with no frame at all is the library's affair.
FinishSave ==
    /\ apc = "saving"
    /\ frame = ani[1].frames
    /\ apc' \in (IF ani[1].frames = 0 THEN {"returned", "raised"} ELSE {"returned"})
    /\ frame' = 0
    /\ UNCHANGED <<fn, args, result, prev, shown, xlim, ylim, nset, ani, cur, saved>>

\* the figure's timer draws the next frame on screen, over and over
PlayFrame ==
    /\ apc = "returned"
    /\ ani[1].frames > 0
    /\ shown' = animate_frames(args.line, frame)
    /\ cur' = frame
    /\ frame' = (frame + 1) % ani[1].frames
    /\ UNCHANGED <<fn, args, result, prev, xlim, ylim, nset, ani, apc, saved>>

NextAnimate == Animate \/ SaveFrame \/ FinishSave \/ PlayFrame

SpecAnimate == InitAnimate /\ [][NextAnimate]_vars

(***************************************************************************)
(* Properties of p_to_c                                                    *)
(***************************************************************************)
SupportedConcUnits == {"ppm", "ppb", "ppt"}

ConvertedPressureUnits == {"Pa", "atm", "torr"}

PtoCDone == fn = "p_to_c" /\ result # NoResult

\* C1: p_to_c with a conc_unit outside ppm, ppb, ppt raises ValueError and
\* returns no concentration, whatever P, system_pressure and pressure_unit are
\* (a zero system_pressure and an unrecognized pressure_unit included).
C1_UnsupportedConcUnitRaises ==
    (PtoCDone /\ args.Cunit \notin SupportedConcUnits) => result = Raise("ValueError")

C1_Witness ==
    /\ PtoCDone
    /\ args.Cunit = "percent"
    /\ args.Punit = "psi"
    /\ IsZero(args.Psystem)
    /\ args.Psystem.ty = "scalar"
    /\ result = Raise("ValueError")

\* (P / Psystem) * 10^6, 10^9 or 10^12 of the arguments as they were passed
Unconverted(a) ==
    Mul(Div(a.P, a.Psystem),
        Lit(1, 1, CASE a.Cunit = "ppm" -> 6 [] a.Cunit = "ppb" -> 9 [] a.Cunit = "ppt" -> 12))

MbarPerTorr == Div(Lit(101325, 1, -2), Lit(760, 1, 0))

\* C9: p_to_c(P, "torr", conc_unit, system_pressure) is
\* p_to_c(P * 1013.25/760, "mbar", conc_unit, system_pressure * 1013.25/760),
\* for every P, system_pressure and supported conc_unit.
C9_TorrIsConvertedMbar ==
    (PtoCDone /\ args.Punit = "torr" /\ args.Cunit \in SupportedConcUnits)
    => result = p_to_c(Mul(args.P, MbarPerTorr), "mbar", args.Cunit,
                       Mul(args.Psystem, MbarPerTorr))

C9_Witness ==
    /\ PtoCDone
    /\ args.Punit = "torr"
    /\ args.Cunit = "ppb"
    /\ args.P = Lit(10, 1, 0)
    /\ args.Psystem = Lit(760, 1, 0)
    /\ result = Num(1, 76, 9, "scalar")

(***************************************************************************)
(* Properties of chi_water                                                 *)
(***************************************************************************)
ChiDone == fn = "chi_water" /\ result # NoResult

NonNegative(a) == a.k = "fin" /\ a.n >= 0

\* C6 as stated: with RH >= 0 and P_total > 0 the result of chi_water is
\* non-negative, under both denominator conventions.
C6_AsStated ==
    (ChiDone /\ args.RH_percent.n >= 0 /\ args.P_Torr.n > 0) => NonNegative(result)

\* C6, amended: with RH >= 0 and P_total > 0 the result is non-negative when
\* vs_dry_air is false, and when it is true provided that the water pressure Pw
\* is below the total pressure P_total_hpa; with Pw above it the result of the
\* dry-air convention is negative.
C6_NonNegativeBelowTotalPressure ==
    (ChiDone /\ args.RH_percent.n >= 0 /\ args.P_Torr.n > 0)
    => LET Pw    == WaterPressure(args.T_celc, args.RH_percent)
           P_hpa == TotalPressure(args.P_Torr)
       IN  /\ ~args.chi_h20_dry_air => NonNegative(result)
           /\ (args.chi_h20_dry_air /\ Less(Pw, P_hpa)) => NonNegative(result)
           /\ (args.chi_h20_dry_air /\ Less(P_hpa, Pw))
              => result.k = "fin" /\ result.n < 0

C6_Witness ==
    /\ ChiDone
    /\ args.chi_h20_dry_air
    /\ AsInt(args.T_celc) = 25
    /\ AsInt(args.RH_percent) = 50
    /\ AsInt(args.P_Torr) = 760
    /\ result.k = "fin"
    /\ result.n > 0

\* C8 as stated: chi_water(T, 0, P) is 0 for any T and any P, under either
\* convention.
C8_AsStated == (ChiDone /\ IsZero(args.RH_percent)) => IsZero(result)

\* C8, amended: chi_water(T, 0, P) is 0 for any T of the formula's range and
\* any P other than 0, under either convention; with P = 0 it is 0/0: a
\* ZeroDivisionError of plain Python numbers, nan with a NumPy operand.
C8_ZeroHumidityNonzeroPressure ==
    (ChiDone /\ IsZero(args.RH_percent))
    => IF IsZero(args.P_Torr)
       THEN result.k \in {"ZeroDivisionError", "nan"}
       ELSE IsZero(result)

C8_Witness ==
    /\ ChiDone
    /\ IsZero(args.RH_percent)
    /\ AsInt(args.P_Torr) = 760
    /\ AsInt(args.T_celc) = 25
    /\ args.chi_h20_dry_air
    /\ IsZero(result)

(***************************************************************************)
(* Properties of raoults                                                   *)
(***************************************************************************)
\* two calls of raoults that differ in conc alone, the earlier with the lower
RaoultsRaised ==
    /\ fn = "raoults"
    /\ prev # <<>>
    /\ result # NoResult
    /\ Less(prev[1].args.conc, args.conc)

\* C7 as stated: for every fixed p_vapor_solute, mw_solute, mw_solvent and
\* density, conc1 < conc2 implies raoults(conc1) < raoults(conc2) (read of the
\* calls that divide by no zero molecular weight and return a finite number).
C7_AsStated ==
    (RaoultsRaised /\ ~IsZero(args.mw_solute) /\ ~IsZero(args.mw_solvent)
                   /\ prev[1].result.k = "fin" /\ result.k = "fin")
    => Less(prev[1].result, result)

\* C7, amended: raoults is strictly increasing in conc >= 0 when
\* p_vapor_solute, mw_solute, mw_solvent and density are all positive.
C7_IncreasingForPositive ==
    (RaoultsRaised /\ args.pvapsolute.n > 0 /\ args.mw_solute.n > 0
                   /\ args.mw_solvent.n > 0 /\ args.density.n > 0)
    => /\ prev[1].result.k = "fin"
       /\ result.k = "fin"
       /\ Less(prev[1].result, result)

C7_Witness ==
    /\ RaoultsRaised
    /\ AsInt(prev[1].args.conc) = 1
    /\ AsInt(args.conc) = 2
    /\ args.pvapsolute.n > 0 /\ args.mw_solute.n > 0
    /\ args.mw_solvent.n > 0 /\ args.density.n > 0
    /\ result.k = "fin"
    /\ result.n > 0

(***************************************************************************)
(* Errors of the three calculators                                         *)
(***************************************************************************)
CalcDone == fn \in {"chi_water", "p_to_c", "raoults"} /\ result # NoResult

\* the numeric arguments of the call
NumArgs ==
    CASE fn = "chi_water" -> {args.T_celc, args.RH_percent, args.P_Torr}
      [] fn = "p_to_c"    -> {args.P, args.Psystem}
      [] fn = "raoults"   -> {args.pvapsolute, args.conc, args.mw_solute,
                              args.mw_solvent, args.density}

AllPlain == \A x \in NumArgs : x.ty = "scalar"

AllArrays == \A x \in NumArgs : x.ty # "scalar"

\* mol_solute + mol_solvent
CombinedMoles(a) ==
    Add(Div(Mul(a.conc, Lit(1, 1, -3)), a.mw_solute),
        Div(Mul(Lit(1000, 1, 0), a.density), a.mw_solvent))

\* the call divides by zero
ZeroDivisor ==
    CASE fn = "chi_water" ->
           IF args.chi_h20_dry_air
           THEN SameValue(TotalPressure(args.P_Torr),
                          WaterPressure(args.T_celc, args.RH_percent))
           ELSE IsZero(args.P_Torr)
      [] fn = "p_to_c" -> args.Cunit \in SupportedConcUnits /\ IsZero(args.Psystem)
      [] fn = "raoults" ->
           \/ IsZero(args.mw_solute)
           \/ IsZero(args.mw_solvent)
           \/ IsZero(CombinedMoles(args))

NPoints == Len(args.line.x)

\* s is the first n elements of t
IsPrefix(s, t, n) == Len(s) = n /\ n <= Len(t) /\ \A i \in 1..n : s[i] = t[i]

\* the data is the first n points of the line
FirstPoints(data, n) ==
    IsPrefix(data.x, args.line.x, n) /\ IsPrefix(data.y, args.line.y, n)

\* C3: at frame f (0 <= f <= N-1) the line displays exactly the first f+1
\* points of its x and y data, in playback and in the export alike: point k is
\* displayed only with point k-1, and x and y have one length.
C3_FramePrefix ==
    fn = "animate"
    => /\ cur \in -1..(NPoints - 1)
       /\ cur >= 0 => (FirstPoints(shown, cur + 1) /\ Len(shown.x) = Len(shown.y))
       /\ saved # <<>>
          => \A i \in 1..Len(saved[1].frames) : FirstPoints(saved[1].frames[i], i)

C3_Witness ==
    /\ fn = "animate"
    /\ apc = "returned"
    /\ NPoints = 3
    /\ cur = 1
    /\ shown.x = <<args.line.x[1], args.line.x[2]>>
    /\ args.line.x[1] # args.line.x[2]

\* the export: N frames at N / length_secs frames per second last length_secs
ExportTimed ==
    /\ ani[1].frames = NPoints
    /\ frame <= NPoints
    /\ Mul(saved[1].fps, Lit(args.length_secs, 1, 0)) = Lit(NPoints, 1, 0)
    /\ Div(Lit(NPoints, 1, 0), saved[1].fps) = Lit(args.length_secs, 1, 0)
    /\ apc = "returned"
       => /\ Len(saved[1].frames) = NPoints
          /\ \A i \in 1..NPoints : FirstPoints(saved[1].frames[i], i)

\* C4 as stated: animate drives exactly N frames and exports them at
\* N / length_seconds frames per second, so that the exported duration, the
\* frame count divided by the frame rate, is length_seconds whatever N is.
C4_AsStated ==
    (fn = "animate" /\ args.filename /\ apc \in {"saving", "returned"}) => ExportTimed

\* C4, amended: as stated, for a line of N >= 1 points (with no point the rate
\* is 0 and the duration 0/0); N = 50 and length_seconds = 5 give 10 frames per
\* second.
C4_ExportRate ==
    /\ (fn = "animate" /\ ani # <<>>) => ani[1].frames = NPoints
    /\ (fn = "animate" /\ args.filename /\ apc \in {"saving", "returned"} /\ NPoints >= 1)
       => ExportTimed
    /\ (fn = "animate" /\ saved # <<>> /\ NPoints = 50 /\ args.length_secs = 5)
       => saved[1].fps = Lit(10, 1, 0)

C4_Witness ==
    /\ fn = "animate"
    /\ apc = "returned"
    /\ NPoints = 50
    /\ args.length_secs = 5
    /\ saved # <<>>
    /\ Len(saved[1].frames) = 50
    /\ saved[1].fps = Lit(10, 1, 0)

\* limits are [lo - m * (hi - lo), hi + m * (hi - lo)], lo and hi the least and
\* the greatest of vals
MarginsOf(limits, vals, m) ==
    \E lo, hi \in Range(vals) :
        /\ \A v \in Range(vals) : lo <= v /\ v <= hi
        /\ limits = << Sub(NpInt(lo), Mul(m, NpInt(hi - lo))),
                       Add(NpInt(hi), Mul(m, NpInt(hi - lo))) >>

\* C5: with set_margins true, the x-limits and the y-limits are each set once,
\* before any frame is played or exported, to
\* [min - margin * range, max + margin * range] of the full x and y data
\* (a line that has data: an empty one has no min); x data spanning [0, 10]
\* with margin 0.2 gives [-2, 12].
C5_MarginLimits ==
    (fn = "animate" /\ args.set_margins /\ NPoints >= 1)
    => /\ apc = "idle" => (nset = <<0, 0>> /\ cur = -1 /\ saved = <<>>)
       /\ apc # "idle"
          => /\ nset = <<1, 1>>
             /\ MarginsOf(xlim, args.line.x, args.margin_pcnt)
             /\ MarginsOf(ylim, args.line.y, args.margin_pcnt)
             /\ (SeqMin(args.line.x) = 0 /\ SeqMax(args.line.x) = 10
                 /\ args.margin_pcnt = Lit(2, 1, -1))
                => xlim = <<NpInt(-2), NpInt(12)>>

C5_Witness ==
    /\ fn = "animate"
    /\ args.set_margins
    /\ args.margin_pcnt = Lit(2, 1, -1)
    /\ args.line.x = <<0, 10, 3>>
    /\ xlim = <<NpInt(-2), NpInt(12)>>
    /\ nset = <<1, 1>>
    /\ cur = 2

====
